---- MODULE Spec2Model ----
(***************************************************************************)
(* NVENC option mapping of obs-ffmpeg-encoder (source/ui/nvenc_shared.cpp). *)
(* The encoder context (AVCodecContext fields and the private option       *)
(* dictionary), the host's settings record and the rate-control property   *)
(* visibility are the state; update, override_update and                   *)
(* modified_ratecontrol are the operations.                                *)
(***************************************************************************)
EXTENDS Integers, Sequences, FiniteSets, TLC

\* ------------------------------------------------------------------------
\* Settings keys (the ST_* macros)
\* ------------------------------------------------------------------------
ST_PRESET == "NVENC.Preset"
ST_RATECONTROL_MODE == "NVENC.RateControl.Mode"
ST_RATECONTROL_TWOPASS == "NVENC.RateControl.TwoPass"
ST_RATECONTROL_LOOKAHEAD == "NVENC.RateControl.LookAhead"
ST_RATECONTROL_ADAPTIVEI == "NVENC.RateControl.AdaptiveI"
ST_RATECONTROL_ADAPTIVEB == "NVENC.RateControl.AdaptiveB"
ST_RATECONTROL_BITRATE_TARGET == "NVENC.RateControl.Bitrate.Target"
ST_RATECONTROL_BITRATE_MAXIMUM == "NVENC.RateControl.Bitrate.Maximum"
\* S_RATECONTROL_BUFFERSIZE and S_STATE_DISABLED come from strings.hpp
S_RATECONTROL_BUFFERSIZE == "RateControl.BufferSize"
ST_RATECONTROL_QUALITY == "NVENC.RateControl.Quality"
ST_RATECONTROL_QUALITY_MINIMUM == "NVENC.RateControl.Quality.Minimum"
ST_RATECONTROL_QUALITY_MAXIMUM == "NVENC.RateControl.Quality.Maximum"
ST_RATECONTROL_QUALITY_TARGET == "NVENC.RateControl.Quality.Target"
ST_RATECONTROL_QP_I == "NVENC.RateControl.QP.I"
ST_RATECONTROL_QP_I_INITIAL == "NVENC.RateControl.QP.I.Initial"
ST_RATECONTROL_QP_P == "NVENC.RateControl.QP.P"
ST_RATECONTROL_QP_P_INITIAL == "NVENC.RateControl.QP.P.Initial"
ST_RATECONTROL_QP_B == "NVENC.RateControl.QP.B"
ST_RATECONTROL_QP_B_INITIAL == "NVENC.RateControl.QP.B.Initial"
ST_AQ_SPATIAL == "NVENC.AQ.Spatial"
ST_AQ_TEMPORAL == "NVENC.AQ.Temporal"
ST_AQ_STRENGTH == "NVENC.AQ.Strength"
ST_OTHER_BFRAMES == "NVENC.Other.BFrames"
ST_OTHER_BFRAME_REFERENCEMODE == "NVENC.Other.BFrameReferenceMode"
ST_OTHER_ZEROLATENCY == "NVENC.Other.ZeroLatency"
ST_OTHER_WEIGHTED_PREDICTION == "NVENC.Other.WeightedPrediction"
ST_OTHER_NONREFERENCE_PFRAMES == "NVENC.Other.NonReferencePFrames"
\* the literal key "bitrate", read by the replay buffer
ReplayBufferKey == "bitrate"

\* property groups, lines 42-72
ST_RATECONTROL == "NVENC.RateControl"
ST_RATECONTROL_BITRATE == "NVENC.RateControl.Bitrate"
ST_RATECONTROL_QP == "NVENC.RateControl.QP"
ST_AQ == "NVENC.AQ"
ST_OTHER == "NVENC.Other"

\* ------------------------------------------------------------------------
\* Enum <-> text tables.  An enum value is modelled by its enumerator name;
\* UnknownEnum stands for any integer that is no enumerator.
\* ------------------------------------------------------------------------
UnknownEnum == "<none>"

Range(seq) == {seq[i] : i \in 1..Len(seq)}

\* std::map built from an initializer list of {key, value} pairs
MapOf(pairs) ==
    [k \in {p[1] : p \in Range(pairs)} |->
        (CHOOSE p \in Range(pairs) : p[1] = k)[2]]

presets ==
    MapOf(<< <<"DEFAULT", "NVENC.Preset.Default">>,
             <<"SLOW", "NVENC.Preset.Slow">>,
             <<"MEDIUM", "NVENC.Preset.Medium">>,
             <<"FAST", "NVENC.Preset.Fast">>,
             <<"HIGH_PERFORMANCE", "NVENC.Preset.HighPerformance">>,
             <<"HIGH_QUALITY", "NVENC.Preset.HighQuality">>,
             <<"BLURAYDISC", "NVENC.Preset.BluRayDisc">>,
             <<"LOW_LATENCY", "NVENC.Preset.LowLatency">>,
             <<"LOW_LATENCY_HIGH_PERFORMANCE", "NVENC.Preset.LowLatencyHighPerformance">>,
             <<"LOW_LATENCY_HIGH_QUALITY", "NVENC.Preset.LowLatencyHighQuality">>,
             <<"LOSSLESS", "NVENC.Preset.Lossless">>,
             <<"LOSSLESS_HIGH_PERFORMANCE", "NVENC.Preset.LosslessHighPerformance">> >>)

\* mutant of preset_to_opt: HIGH_QUALITY carries the token of HIGH_PERFORMANCE
preset_to_opt_dup ==
    MapOf(<< <<"DEFAULT", "default">>,
             <<"SLOW", "slow">>,
             <<"MEDIUM", "medium">>,
             <<"FAST", "fast">>,
             <<"HIGH_PERFORMANCE", "hp">>,
             <<"HIGH_QUALITY", "hp">>,
             <<"BLURAYDISC", "bd">>,
             <<"LOW_LATENCY", "ll">>,
             <<"LOW_LATENCY_HIGH_PERFORMANCE", "llhp">>,
             <<"LOW_LATENCY_HIGH_QUALITY", "llhq">>,
             <<"LOSSLESS", "lossless">>,
             <<"LOSSLESS_HIGH_PERFORMANCE", "losslesshp">> >>)

preset_to_opt ==
    MapOf(<< <<"DEFAULT", "default">>,
             <<"SLOW", "slow">>,
             <<"MEDIUM", "medium">>,
             <<"FAST", "fast">>,
             <<"HIGH_PERFORMANCE", "hp">>,
             <<"HIGH_QUALITY", "hq">>,
             <<"BLURAYDISC", "bd">>,
             <<"LOW_LATENCY", "ll">>,
             <<"LOW_LATENCY_HIGH_PERFORMANCE", "llhp">>,
             <<"LOW_LATENCY_HIGH_QUALITY", "llhq">>,
             <<"LOSSLESS", "lossless">>,
             <<"LOSSLESS_HIGH_PERFORMANCE", "losslesshp">> >>)

ratecontrolmodes ==
    MapOf(<< <<"CQP", "NVENC.RateControl.Mode.CQP">>,
             <<"VBR", "NVENC.RateControl.Mode.VBR">>,
             <<"VBR_HQ", "NVENC.RateControl.Mode.VBR_HQ">>,
             <<"CBR", "NVENC.RateControl.Mode.CBR">>,
             <<"CBR_HQ", "NVENC.RateControl.Mode.CBR_HQ">>,
             <<"CBR_LD_HQ", "NVENC.RateControl.Mode.CBR_LD_HQ">> >>)

ratecontrolmode_to_opt ==
    MapOf(<< <<"CQP", "constqp">>, <<"VBR", "vbr">>, <<"VBR_HQ", "vbr_hq">>,
             <<"CBR", "cbr">>, <<"CBR_HQ", "cbr_hq">>, <<"CBR_LD_HQ", "cbr_ld_hq">> >>)

b_ref_modes ==
    MapOf(<< <<"DISABLED", "State.Disabled">>,
             <<"EACH", "NVENC.Other.BFrameReferenceMode.Each">>,
             <<"MIDDLE", "NVENC.Other.BFrameReferenceMode.Middle">> >>)

b_ref_mode_to_opt ==
    MapOf(<< <<"DISABLED", "disabled">>, <<"EACH", "each">>, <<"MIDDLE", "middle">> >>)

\* ------------------------------------------------------------------------
\* Helpers
\* ------------------------------------------------------------------------
Max(a, b) == IF a >= b THEN a ELSE b
Min(a, b) == IF a <= b THEN a ELSE b

is_tristate_default(v) == v = -1
is_tristate_enabled(v) == v = 1

\* static_cast<int>(v * 1000) for 0 <= v < 2^31: the product is formed in
\* 64 bits and the cast keeps its low 32 bits as a two's complement value.
\* Computed on 16-bit halves so that no intermediate exceeds 32 bits.
MulThousandToInt(v) ==
    LET Half == 2^16
        vh == v \div Half
        vl == v % Half
        t  == vl * 1000
        lo == t % Half
        hi == (vh * 1000 + (t \div Half)) % Half
    IN  IF hi >= Half \div 2 THEN (hi - Half) * Half + lo ELSE hi * Half + lo

\* an option of the private dictionary: Unset (encoder default) or <<value>>
Unset == << >>
Val(v) == << v >>

\* ------------------------------------------------------------------------
\* The encoder context as update sees it: r.ctx are the AVCodecContext
\* fields, r.priv the private options, r.settings the settings record.
\* r.written (fields and options assigned by the call), r.applied (settings
\* keys whose value reached the context) and r.warned (PLOG_WARNING issued)
\* record what the call did.
\* ------------------------------------------------------------------------
CtxFields == {"bit_rate", "rc_max_rate", "rc_buffer_size", "qmin", "qmax", "max_b_frames", "delay"}

StringOptions == {"preset", "rc", "b_ref_mode"}

IntOptions ==
    {"cbr", "2pass", "rc-lookahead", "no-scenecut", "b_adapt", "cq",
     "init_qpI", "init_qpP", "init_qpB",
     "spatial-aq", "temporal-aq", "spatial_aq", "temporal_aq", "aq-strength",
     "zerolatency", "nonref_p", "weighted_pred", "surfaces", "async_depth"}

Options == StringOptions \cup IntOptions

av_opt_set(r, name, v, key) ==
    [r EXCEPT !.priv[name] = Val(v),
              !.written = @ \cup {name},
              !.applied = @ \cup key]

\* av_opt_set(..., nullptr, 0): the option is cleared
av_opt_set_null(r, name) ==
    [r EXCEPT !.priv[name] = Unset, !.written = @ \cup {name}]

ctx_set(r, field, v, key) ==
    [r EXCEPT !.ctx[field] = v,
              !.written = @ \cup {field},
              !.applied = @ \cup key]

obs_data_set_int(r, key, v) == [r EXCEPT !.settings[key] = v]

\* lines 537-545
update_preset(r, s) ==
    IF s[ST_PRESET] \in DOMAIN preset_to_opt
    THEN av_opt_set(r, "preset", preset_to_opt[s[ST_PRESET]], {ST_PRESET})
    ELSE av_opt_set_null(r, "preset")

\* the switch of lines 561-578, without its "cbr" side effect
update_flags(rc) ==
    CASE rc = "CQP" ->
            [have_bitrate |-> FALSE, have_bitrate_max |-> FALSE, have_quality |-> FALSE,
             have_qp |-> TRUE, have_qp_init |-> FALSE]
      [] rc \in {"CBR", "CBR_HQ", "CBR_LD_HQ"} ->
            [have_bitrate |-> TRUE, have_bitrate_max |-> FALSE, have_quality |-> FALSE,
             have_qp |-> FALSE, have_qp_init |-> FALSE]
      [] rc \in {"VBR", "VBR_HQ"} ->
            [have_bitrate |-> TRUE, have_bitrate_max |-> TRUE, have_quality |-> TRUE,
             have_qp |-> FALSE, have_qp_init |-> TRUE]
      [] OTHER ->
            [have_bitrate |-> FALSE, have_bitrate_max |-> FALSE, have_quality |-> FALSE,
             have_qp |-> FALSE, have_qp_init |-> FALSE]

\* mutant of update_rc_mode: the unconditional reset of "cbr" is missing
update_rc_mode_noreset(r, s) ==
    LET rc == s[ST_RATECONTROL_MODE]
        r1 == IF rc \in DOMAIN ratecontrolmode_to_opt
              THEN av_opt_set(r, "rc", ratecontrolmode_to_opt[rc], {ST_RATECONTROL_MODE})
              ELSE r
    IN  IF rc \in {"CBR", "CBR_HQ", "CBR_LD_HQ"}
        THEN av_opt_set(r1, "cbr", 1, {ST_RATECONTROL_MODE})
        ELSE r1

\* lines 554-578: the "rc" option and the "cbr" flag
update_rc_mode(r, s) ==
    LET rc == s[ST_RATECONTROL_MODE]
        r1 == IF rc \in DOMAIN ratecontrolmode_to_opt
              THEN av_opt_set(r, "rc", ratecontrolmode_to_opt[rc], {ST_RATECONTROL_MODE})
              ELSE r
        r2 == av_opt_set(r1, "cbr", 0, {ST_RATECONTROL_MODE})
    IN  IF rc \in {"CBR", "CBR_HQ", "CBR_LD_HQ"}
        THEN av_opt_set(r2, "cbr", 1, {ST_RATECONTROL_MODE})
        ELSE r2

\* mutant of update_rc_lookahead: "b_adapt" is written whatever the codec
update_rc_lookahead_anycodec(r, s, codec) ==
    LET tp == s[ST_RATECONTROL_TWOPASS]
        la == s[ST_RATECONTROL_LOOKAHEAD]
        adapt_i == s[ST_RATECONTROL_ADAPTIVEI]
        adapt_b == s[ST_RATECONTROL_ADAPTIVEB]
        r1 == IF tp >= 0
              THEN av_opt_set(r, "2pass", IF tp # 0 THEN 1 ELSE 0, {ST_RATECONTROL_TWOPASS})
              ELSE r
        r2 == av_opt_set(r1, "rc-lookahead", la, {ST_RATECONTROL_LOOKAHEAD})
        r3 == IF la > 0 /\ ~is_tristate_default(adapt_i)
              THEN av_opt_set(r2, "no-scenecut", adapt_i, {ST_RATECONTROL_ADAPTIVEI})
              ELSE r2
    IN  IF la > 0 /\ ~is_tristate_default(adapt_b)
        THEN av_opt_set(r3, "b_adapt", adapt_b, {ST_RATECONTROL_ADAPTIVEB})
        ELSE r3

\* lines 580-599: two-pass, look-ahead, adaptive I and B
update_rc_lookahead(r, s, codec) ==
    LET tp == s[ST_RATECONTROL_TWOPASS]
        la == s[ST_RATECONTROL_LOOKAHEAD]
        adapt_i == s[ST_RATECONTROL_ADAPTIVEI]
        adapt_b == s[ST_RATECONTROL_ADAPTIVEB]
        r1 == IF tp >= 0
              THEN av_opt_set(r, "2pass", IF tp # 0 THEN 1 ELSE 0, {ST_RATECONTROL_TWOPASS})
              ELSE r
        r2 == av_opt_set(r1, "rc-lookahead", la, {ST_RATECONTROL_LOOKAHEAD})
        r3 == IF la > 0 /\ ~is_tristate_default(adapt_i)
              THEN av_opt_set(r2, "no-scenecut", adapt_i, {ST_RATECONTROL_ADAPTIVEI})
              ELSE r2
    IN  IF la > 0 /\ codec # "h264_nvenc" /\ ~is_tristate_default(adapt_b)
        THEN av_opt_set(r3, "b_adapt", adapt_b, {ST_RATECONTROL_ADAPTIVEB})
        ELSE r3

\* mutant of update_rc_bitrate: the replay-buffer key is written in every mode
update_rc_bitrate_always(r, s) ==
    LET f  == update_flags(s[ST_RATECONTROL_MODE])
        r0 == obs_data_set_int(r, ReplayBufferKey, s[ST_RATECONTROL_BITRATE_TARGET])
        r1 == IF f.have_bitrate
              THEN ctx_set(r0, "bit_rate", MulThousandToInt(s[ST_RATECONTROL_BITRATE_TARGET]),
                           {ST_RATECONTROL_BITRATE_TARGET})
              ELSE r0
        r2 == IF f.have_bitrate_max
              THEN ctx_set(r1, "rc_max_rate", MulThousandToInt(s[ST_RATECONTROL_BITRATE_MAXIMUM]),
                           {ST_RATECONTROL_BITRATE_MAXIMUM})
              ELSE r1
    IN  IF f.have_bitrate \/ f.have_bitrate_max
        THEN ctx_set(r2, "rc_buffer_size", MulThousandToInt(s[S_RATECONTROL_BUFFERSIZE]),
                     {S_RATECONTROL_BUFFERSIZE})
        ELSE r2

\* lines 601-613: bit rate, maximum rate, buffer size
update_rc_bitrate(r, s) ==
    LET f  == update_flags(s[ST_RATECONTROL_MODE])
        r1 == IF f.have_bitrate
              THEN obs_data_set_int(
                       ctx_set(r, "bit_rate", MulThousandToInt(s[ST_RATECONTROL_BITRATE_TARGET]),
                               {ST_RATECONTROL_BITRATE_TARGET}),
                       ReplayBufferKey, s[ST_RATECONTROL_BITRATE_TARGET])
              ELSE r
        r2 == IF f.have_bitrate_max
              THEN ctx_set(r1, "rc_max_rate", MulThousandToInt(s[ST_RATECONTROL_BITRATE_MAXIMUM]),
                           {ST_RATECONTROL_BITRATE_MAXIMUM})
              ELSE r1
    IN  IF f.have_bitrate \/ f.have_bitrate_max
        THEN ctx_set(r2, "rc_buffer_size", MulThousandToInt(s[S_RATECONTROL_BUFFERSIZE]),
                     {S_RATECONTROL_BUFFERSIZE})
        ELSE r2

\* value / 100.0 * 51.0, kept exactly in hundredths of a quantizer step
\* (the setting is a whole percentage here)
QualityTargetToCq(t) == t * 51

\* mutant of update_rc_quality: the quality range is applied in every mode
update_rc_quality_anymode(r, s) ==
    LET qmin == s[ST_RATECONTROL_QUALITY_MINIMUM]
        r1 == IF s[ST_RATECONTROL_QUALITY]
              THEN LET q1 == ctx_set(r, "qmin", qmin,
                                     {ST_RATECONTROL_QUALITY, ST_RATECONTROL_QUALITY_MINIMUM})
                   IN  IF qmin >= 0
                       THEN ctx_set(q1, "qmax", s[ST_RATECONTROL_QUALITY_MAXIMUM],
                                    {ST_RATECONTROL_QUALITY_MAXIMUM})
                       ELSE q1
              ELSE r
        v  == QualityTargetToCq(s[ST_RATECONTROL_QUALITY_TARGET])
    IN  IF v > 0
        THEN av_opt_set(r1, "cq", v, {ST_RATECONTROL_QUALITY_TARGET})
        ELSE r1

\* lines 615-629: quality range and quality target
update_rc_quality(r, s) ==
    LET f    == update_flags(s[ST_RATECONTROL_MODE])
        qmin == s[ST_RATECONTROL_QUALITY_MINIMUM]
        r1 == IF f.have_quality /\ s[ST_RATECONTROL_QUALITY]
              THEN LET q1 == ctx_set(r, "qmin", qmin,
                                     {ST_RATECONTROL_QUALITY, ST_RATECONTROL_QUALITY_MINIMUM})
                   IN  IF qmin >= 0
                       THEN ctx_set(q1, "qmax", s[ST_RATECONTROL_QUALITY_MAXIMUM],
                                    {ST_RATECONTROL_QUALITY_MAXIMUM})
                       ELSE q1
              ELSE r
        v  == QualityTargetToCq(s[ST_RATECONTROL_QUALITY_TARGET])
    IN  IF v > 0
        THEN av_opt_set(r1, "cq", v, {ST_RATECONTROL_QUALITY_TARGET})
        ELSE r1

\* mutant of update_rc_qp: an initial QP of -1 is skipped
update_rc_qp_skipdisabled(r, s) ==
    LET f  == update_flags(s[ST_RATECONTROL_MODE])
        r1 == IF f.have_qp
              THEN av_opt_set(
                     av_opt_set(
                       av_opt_set(r, "init_qpI", s[ST_RATECONTROL_QP_I], {ST_RATECONTROL_QP_I}),
                       "init_qpP", s[ST_RATECONTROL_QP_P], {ST_RATECONTROL_QP_P}),
                     "init_qpB", s[ST_RATECONTROL_QP_B], {ST_RATECONTROL_QP_B})
              ELSE r
        r2 == IF f.have_qp_init /\ s[ST_RATECONTROL_QP_I_INITIAL] # -1
              THEN av_opt_set(r1, "init_qpI", s[ST_RATECONTROL_QP_I_INITIAL],
                              {ST_RATECONTROL_QP_I_INITIAL})
              ELSE r1
        r3 == IF f.have_qp_init /\ s[ST_RATECONTROL_QP_P_INITIAL] # -1
              THEN av_opt_set(r2, "init_qpP", s[ST_RATECONTROL_QP_P_INITIAL],
                              {ST_RATECONTROL_QP_P_INITIAL})
              ELSE r2
    IN  IF f.have_qp_init /\ s[ST_RATECONTROL_QP_B_INITIAL] # -1
        THEN av_opt_set(r3, "init_qpB", s[ST_RATECONTROL_QP_B_INITIAL],
                        {ST_RATECONTROL_QP_B_INITIAL})
        ELSE r3

\* lines 631-646: constant and initial QP
update_rc_qp(r, s) ==
    LET f  == update_flags(s[ST_RATECONTROL_MODE])
        r1 == IF f.have_qp
              THEN av_opt_set(
                     av_opt_set(
                       av_opt_set(r, "init_qpI", s[ST_RATECONTROL_QP_I], {ST_RATECONTROL_QP_I}),
                       "init_qpP", s[ST_RATECONTROL_QP_P], {ST_RATECONTROL_QP_P}),
                     "init_qpB", s[ST_RATECONTROL_QP_B], {ST_RATECONTROL_QP_B})
              ELSE r
    IN  IF f.have_qp_init
        THEN av_opt_set(
               av_opt_set(
                 av_opt_set(r1, "init_qpI", s[ST_RATECONTROL_QP_I_INITIAL],
                            {ST_RATECONTROL_QP_I_INITIAL}),
                 "init_qpP", s[ST_RATECONTROL_QP_P_INITIAL], {ST_RATECONTROL_QP_P_INITIAL}),
               "init_qpB", s[ST_RATECONTROL_QP_B_INITIAL], {ST_RATECONTROL_QP_B_INITIAL})
        ELSE r1

\* lines 649-667: adaptive quantization
update_aq(r, s, codec) ==
    LET saq == s[ST_AQ_SPATIAL]
        taq == s[ST_AQ_TEMPORAL]
        sname == IF codec = "h264_nvenc" THEN "spatial-aq" ELSE "spatial_aq"
        tname == IF codec = "h264_nvenc" THEN "temporal-aq" ELSE "temporal_aq"
        r1 == IF ~is_tristate_default(saq) THEN av_opt_set(r, sname, saq, {ST_AQ_SPATIAL}) ELSE r
        r2 == IF ~is_tristate_default(taq) THEN av_opt_set(r1, tname, taq, {ST_AQ_TEMPORAL}) ELSE r1
    IN  IF is_tristate_enabled(saq)
        THEN av_opt_set(r2, "aq-strength", s[ST_AQ_STRENGTH], {ST_AQ_STRENGTH})
        ELSE r2

\* lines 688-694
update_b_ref_mode(r, s) ==
    IF s[ST_OTHER_BFRAME_REFERENCEMODE] \in DOMAIN b_ref_mode_to_opt
    THEN av_opt_set(r, "b_ref_mode", b_ref_mode_to_opt[s[ST_OTHER_BFRAME_REFERENCEMODE]],
                    {ST_OTHER_BFRAME_REFERENCEMODE})
    ELSE r

\* lines 681-686 given the B-frame count mb the test is made on
update_weighted_pred(r, s, mb) ==
    LET wp == s[ST_OTHER_WEIGHTED_PREDICTION]
    IN  IF mb # 0 /\ is_tristate_enabled(wp)
        THEN [av_opt_set(r, "weighted_pred", 0, {ST_OTHER_WEIGHTED_PREDICTION})
                 EXCEPT !.warned = TRUE]
        ELSE IF ~is_tristate_default(wp)
             THEN av_opt_set(r, "weighted_pred", wp, {ST_OTHER_WEIGHTED_PREDICTION})
             ELSE r

\* lines 670-679: B-frames, zero latency, non-reference P-frames
update_other_head(r, s) ==
    LET zl  == s[ST_OTHER_ZEROLATENCY]
        nrp == s[ST_OTHER_NONREFERENCE_PFRAMES]
        r1 == ctx_set(r, "max_b_frames", s[ST_OTHER_BFRAMES], {ST_OTHER_BFRAMES})
        r2 == IF ~is_tristate_default(zl)
              THEN av_opt_set(r1, "zerolatency", zl, {ST_OTHER_ZEROLATENCY}) ELSE r1
    IN  IF ~is_tristate_default(nrp)
        THEN av_opt_set(r2, "nonref_p", nrp, {ST_OTHER_NONREFERENCE_PFRAMES}) ELSE r2

\* mutant of update_other: weighted prediction is written as requested,
\* whatever the B-frame count
update_other_nocheck(r, s) ==
    update_b_ref_mode(update_weighted_pred(update_other_head(r, s), s, 0), s)

\* mutant of update_other: the B-frame test reads max_b_frames as it was
\* before this call assigned it
update_other_stale(r, s) ==
    update_b_ref_mode(update_weighted_pred(update_other_head(r, s), s, r.ctx.max_b_frames), s)

\* lines 669-695
update_other(r, s) ==
    LET r1 == update_other_head(r, s)
    IN  update_b_ref_mode(update_weighted_pred(r1, s, r1.ctx.max_b_frames), s)

\* obsffmpeg::nvenc::update, lines 535-696
update(s, codec, c, p) ==
    LET r0 == [ctx |-> c, priv |-> p, settings |-> s,
               written |-> {}, applied |-> {}, warned |-> FALSE]
        r1 == update_preset(r0, s)
        r2 == update_rc_mode(r1, s)
        r3 == update_rc_lookahead(r2, s, codec)
        r4 == update_rc_bitrate(r3, s)
        r5 == update_rc_quality(r4, s)
        r6 == update_rc_qp(r5, s)
        r7 == update_aq(r6, s, codec)
    IN  update_other(r7, s)

\* ------------------------------------------------------------------------
\* override_update, lines 137-165
\* ------------------------------------------------------------------------
\* av_opt_get_int into a local initialised to 0
av_opt_get_int(p, name) == IF p[name] = Unset THEN 0 ELSE p[name][1]

\* mutant of derive_surfaces: the look-ahead window is not counted
derive_surfaces_nolookahead(rclookahead, max_b_frames) ==
    IF max_b_frames > 0 THEN Max(4, (max_b_frames + 1) * 4) ELSE 4

\* lines 151-158: the surface count when none is set
derive_surfaces(rclookahead, max_b_frames) ==
    LET surfaces == Max(4, (max_b_frames + 1) * 4)
    IN  IF rclookahead > 0
        THEN Max(1, Max(surfaces, rclookahead + (max_b_frames + 5)))
        ELSE IF max_b_frames > 0
             THEN Max(4, (max_b_frames + 1) * 4)
             ELSE 4

\* mutant of override_delay: the upper limit is surfaces, not surfaces - 1
override_delay_offbyone(async_depth, surfaces) ==
    Min(Max(async_depth, 3), surfaces)

\* mutant of override_delay: the lower limit is 2
override_delay_low(async_depth, surfaces) ==
    Min(Max(async_depth, 2), surfaces - 1)

\* line 164
override_delay(async_depth, surfaces) ==
    Min(Max(async_depth, 3), surfaces - 1)

override_update(c, p) ==
    LET rclookahead == av_opt_get_int(p, "rc-lookahead")
        surfaces0   == av_opt_get_int(p, "surfaces")
        async_depth == av_opt_get_int(p, "async_depth")
        surfaces    == IF surfaces0 = 0
                       THEN derive_surfaces(rclookahead, c.max_b_frames)
                       ELSE surfaces0
    IN  [ctx  |-> [c EXCEPT !.delay = override_delay(async_depth, surfaces)],
         priv |-> IF surfaces0 = 0 THEN [p EXCEPT !["surfaces"] = Val(surfaces)] ELSE p]

\* ------------------------------------------------------------------------
\* modified_ratecontrol, lines 206-254
\* ------------------------------------------------------------------------
RateControlProperties ==
    {ST_RATECONTROL_BITRATE, ST_RATECONTROL_BITRATE_TARGET, ST_RATECONTROL_BITRATE_MAXIMUM,
     S_RATECONTROL_BUFFERSIZE,
     ST_RATECONTROL_QUALITY, ST_RATECONTROL_QUALITY_MINIMUM, ST_RATECONTROL_QUALITY_MAXIMUM,
     ST_RATECONTROL_QUALITY_TARGET,
     ST_RATECONTROL_QP, ST_RATECONTROL_QP_I, ST_RATECONTROL_QP_P, ST_RATECONTROL_QP_B,
     ST_RATECONTROL_QP_I_INITIAL, ST_RATECONTROL_QP_P_INITIAL, ST_RATECONTROL_QP_B_INITIAL}

\* the switch of lines 217-233
modified_flags(rc) ==
    CASE rc = "CQP" ->
            [have_bitrate |-> FALSE, have_bitrate_max |-> FALSE, have_quality |-> FALSE,
             have_qp |-> TRUE, have_qp_init |-> FALSE]
      [] rc \in {"CBR", "CBR_HQ", "CBR_LD_HQ"} ->
            [have_bitrate |-> TRUE, have_bitrate_max |-> FALSE, have_quality |-> FALSE,
             have_qp |-> FALSE, have_qp_init |-> FALSE]
      [] rc \in {"VBR", "VBR_HQ"} ->
            [have_bitrate |-> TRUE, have_bitrate_max |-> TRUE, have_quality |-> TRUE,
             have_qp |-> FALSE, have_qp_init |-> TRUE]
      [] OTHER ->
            [have_bitrate |-> FALSE, have_bitrate_max |-> FALSE, have_quality |-> FALSE,
             have_qp |-> FALSE, have_qp_init |-> FALSE]

\* lines 235-251: the visibility given to each property
modified_ratecontrol(s) ==
    LET f == modified_flags(s[ST_RATECONTROL_MODE])
    IN  [x \in RateControlProperties |->
            CASE x = ST_RATECONTROL_BITRATE -> f.have_bitrate \/ f.have_bitrate_max
              [] x = ST_RATECONTROL_BITRATE_TARGET -> f.have_bitrate
              [] x = ST_RATECONTROL_BITRATE_MAXIMUM -> f.have_bitrate_max
              [] x = S_RATECONTROL_BUFFERSIZE -> f.have_bitrate \/ f.have_bitrate_max
              [] x \in {ST_RATECONTROL_QUALITY, ST_RATECONTROL_QUALITY_MINIMUM,
                        ST_RATECONTROL_QUALITY_MAXIMUM, ST_RATECONTROL_QUALITY_TARGET} ->
                    f.have_quality
              [] x = ST_RATECONTROL_QP -> f.have_qp \/ f.have_qp_init
              [] x \in {ST_RATECONTROL_QP_I, ST_RATECONTROL_QP_P, ST_RATECONTROL_QP_B} -> f.have_qp
              [] OTHER -> f.have_qp_init]

\* ------------------------------------------------------------------------
\* get_defaults, lines 167-204.  The quality toggle has no default and reads
\* as false.
\* ------------------------------------------------------------------------
Defaults ==
    (ST_PRESET :> "DEFAULT") @@
    (ST_RATECONTROL_MODE :> "CBR_HQ") @@
    (ST_RATECONTROL_TWOPASS :> -1) @@
    (ST_RATECONTROL_LOOKAHEAD :> 0) @@
    (ST_RATECONTROL_ADAPTIVEI :> -1) @@
    (ST_RATECONTROL_ADAPTIVEB :> -1) @@
    (ST_RATECONTROL_BITRATE_TARGET :> 6000) @@
    (ST_RATECONTROL_BITRATE_MAXIMUM :> 6000) @@
    (S_RATECONTROL_BUFFERSIZE :> 12000) @@
    (ST_RATECONTROL_QUALITY :> FALSE) @@
    (ST_RATECONTROL_QUALITY_MINIMUM :> 51) @@
    (ST_RATECONTROL_QUALITY_MAXIMUM :> -1) @@
    (ST_RATECONTROL_QUALITY_TARGET :> 0) @@
    (ST_RATECONTROL_QP_I :> 21) @@
    (ST_RATECONTROL_QP_I_INITIAL :> -1) @@
    (ST_RATECONTROL_QP_P :> 21) @@
    (ST_RATECONTROL_QP_P_INITIAL :> -1) @@
    (ST_RATECONTROL_QP_B :> 21) @@
    (ST_RATECONTROL_QP_B_INITIAL :> -1) @@
    (ST_AQ_SPATIAL :> -1) @@
    (ST_AQ_STRENGTH :> 8) @@
    (ST_AQ_TEMPORAL :> -1) @@
    (ST_OTHER_BFRAMES :> 2) @@
    (ST_OTHER_BFRAME_REFERENCEMODE :> "DISABLED") @@
    (ST_OTHER_ZEROLATENCY :> -1) @@
    (ST_OTHER_WEIGHTED_PREDICTION :> -1) @@
    (ST_OTHER_NONREFERENCE_PFRAMES :> -1) @@
    (ReplayBufferKey :> 0)

\* a settings record with no user value
EmptySettings == [k \in {} |-> 0]

\* mutant of get_defaults: the B-frame count defaults to 0
get_defaults_nobframes(s) ==
    [k \in DOMAIN Defaults \cup DOMAIN s |->
        IF k \in DOMAIN s THEN s[k]
        ELSE IF k = ST_OTHER_BFRAMES THEN 0 ELSE Defaults[k]]

\* get_defaults on a settings record s of user values, as the obs_data_get_*
\* calls read it afterwards: a user value wins over the default
get_defaults(s) ==
    [k \in DOMAIN Defaults \cup DOMAIN s |-> IF k \in DOMAIN s THEN s[k] ELSE Defaults[k]]

\* ------------------------------------------------------------------------
\* The property tree: get_properties_pre, get_properties_post,
\* modified_quality, get_runtime_properties
\* ------------------------------------------------------------------------
\* lines 271-281
get_properties_pre == {ST_PRESET}

\* lines 283-497; groups_broken is are_property_groups_broken()
get_properties_post(codec_name, groups_broken) ==
    {ST_RATECONTROL_MODE, ST_RATECONTROL_TWOPASS, ST_RATECONTROL_LOOKAHEAD,
     ST_RATECONTROL_ADAPTIVEI}
    \cup (IF codec_name = "h264_nvenc" THEN {ST_RATECONTROL_ADAPTIVEB} ELSE {})
    \cup {ST_RATECONTROL_BITRATE_TARGET, ST_RATECONTROL_BITRATE_MAXIMUM, S_RATECONTROL_BUFFERSIZE}
    \cup {ST_RATECONTROL_QUALITY, ST_RATECONTROL_QUALITY_MINIMUM, ST_RATECONTROL_QUALITY_MAXIMUM,
          ST_RATECONTROL_QUALITY_TARGET}
    \cup {ST_RATECONTROL_QP_I, ST_RATECONTROL_QP_I_INITIAL, ST_RATECONTROL_QP_P,
          ST_RATECONTROL_QP_P_INITIAL, ST_RATECONTROL_QP_B, ST_RATECONTROL_QP_B_INITIAL}
    \cup {ST_AQ_SPATIAL, ST_AQ_STRENGTH, ST_AQ_TEMPORAL}
    \cup {ST_OTHER_BFRAMES, ST_OTHER_BFRAME_REFERENCEMODE, ST_OTHER_ZEROLATENCY,
          ST_OTHER_WEIGHTED_PREDICTION, ST_OTHER_NONREFERENCE_PFRAMES}
    \cup (IF groups_broken
          THEN {}
          ELSE {ST_RATECONTROL, ST_RATECONTROL_BITRATE, ST_RATECONTROL_QP, ST_AQ, ST_OTHER})

\* obs_property_set_enabled(obs_properties_get(props, name), v): nothing
\* happens when the tree has no property of that name
obs_property_set_enabled(e, name, v) ==
    IF name \in DOMAIN e THEN [e EXCEPT ![name] = v] ELSE e

\* lines 256-262
modified_quality(e, s) ==
    LET en == s[ST_RATECONTROL_QUALITY]
    IN  obs_property_set_enabled(
            obs_property_set_enabled(e, ST_RATECONTROL_QUALITY_MINIMUM, en),
            ST_RATECONTROL_QUALITY_MAXIMUM, en)

\* the calls of lines 501-532, in order
RuntimeProperties ==
    <<<<ST_PRESET, FALSE>>,
      <<ST_RATECONTROL, FALSE>>,
      <<ST_RATECONTROL_MODE, FALSE>>,
      <<ST_RATECONTROL_TWOPASS, FALSE>>,
      <<ST_RATECONTROL_LOOKAHEAD, FALSE>>,
      <<ST_RATECONTROL_ADAPTIVEI, FALSE>>,
      <<ST_RATECONTROL_ADAPTIVEB, FALSE>>,
      <<ST_RATECONTROL_BITRATE, TRUE>>,
      <<ST_RATECONTROL_BITRATE_TARGET, TRUE>>,
      <<ST_RATECONTROL_BITRATE_MAXIMUM, TRUE>>,
      <<S_RATECONTROL_BUFFERSIZE, TRUE>>,
      <<ST_RATECONTROL_QUALITY, FALSE>>,
      <<ST_RATECONTROL_QUALITY_MINIMUM, FALSE>>,
      <<ST_RATECONTROL_QUALITY_MAXIMUM, FALSE>>,
      <<ST_RATECONTROL_QUALITY_TARGET, FALSE>>,
      <<ST_RATECONTROL_QP, FALSE>>,
      <<ST_RATECONTROL_QP_I, FALSE>>,
      <<ST_RATECONTROL_QP_I_INITIAL, FALSE>>,
      <<ST_RATECONTROL_QP_P, FALSE>>,
      <<ST_RATECONTROL_QP_P_INITIAL, FALSE>>,
      <<ST_RATECONTROL_QP_B, FALSE>>,
      <<ST_RATECONTROL_QP_B_INITIAL, FALSE>>,
      <<ST_AQ, FALSE>>,
      <<ST_AQ_SPATIAL, FALSE>>,
      <<ST_AQ_STRENGTH, FALSE>>,
      <<ST_AQ_TEMPORAL, FALSE>>,
      <<ST_OTHER, FALSE>>,
      <<ST_OTHER_BFRAMES, FALSE>>,
      <<ST_OTHER_BFRAME_REFERENCEMODE, FALSE>>,
      <<ST_OTHER_ZEROLATENCY, FALSE>>,
      <<ST_OTHER_WEIGHTED_PREDICTION, FALSE>>,
      <<ST_OTHER_NONREFERENCE_PFRAMES, FALSE>>>>

RECURSIVE set_enabled_all(_, _)
set_enabled_all(e, calls) ==
    IF calls = << >>
    THEN e
    ELSE set_enabled_all(obs_property_set_enabled(e, Head(calls)[1], Head(calls)[2]),
                         Tail(calls))

\* mutant of get_runtime_properties: the calls after the bit rate fields are
\* left out
get_runtime_properties_bitrateonly(e) ==
    set_enabled_all(e, SubSeq(RuntimeProperties, 1, 11))

\* lines 499-533
get_runtime_properties(e) == set_enabled_all(e, RuntimeProperties)

\* ------------------------------------------------------------------------
\* State
\* ------------------------------------------------------------------------
VARIABLES
    codec,      \* codec->name of the encoder this context belongs to
    given,      \* the settings record as it was handed to the last update
    settings,   \* the settings record as the last update left it
    ctx,        \* AVCodecContext fields
    priv,       \* private options: Unset or <<value>>
    written,    \* fields and options the last update assigned
    applied,    \* settings keys whose value the last update put into the context
    warned,     \* the last update logged the weighted-prediction warning
    visible,    \* visibility of the rate-control properties
    enabled,    \* enabled flag of each property of the property tree
    last        \* the operation that ran last

vars == <<codec, given, settings, ctx, priv, written, applied, warned, visible, enabled, last>>

Codecs == {"h264_nvenc", "hevc_nvenc"}

\* UI ranges of get_properties_post
LookaheadMax == 32
BFramesMax == 4
Int32Max == 2147483647

\* Values an option can have been given outside this module (custom encoder
\* options, the encoder library) before override_update reads it back.
MaxUserSurfaces == 5
MaxAsyncDepth == 20
AsyncDepths == {0, 2, 3, 5, MaxAsyncDepth}

Init ==
    /\ codec \in Codecs
    /\ given = Defaults
    /\ settings = Defaults
    /\ ctx = [f \in CtxFields |-> 0]
    /\ priv = [o \in Options |-> Unset]
    /\ written = {}
    /\ applied = {}
    /\ warned = FALSE
    /\ visible = [x \in RateControlProperties |-> TRUE]
    /\ enabled = [x \in {} |-> TRUE]
    /\ last = "init"

\* update(settings, codec, context) with a settings record drawn from Inputs
Update(Inputs) ==
    \E s \in Inputs :
        \E r \in {update(s, codec, ctx, priv)} :
            /\ given' = s
            /\ settings' = r.settings
            /\ ctx' = r.ctx
            /\ priv' = r.priv
            /\ written' = r.written
            /\ applied' = r.applied
            /\ warned' = r.warned
            /\ last' = "update"
            /\ UNCHANGED <<codec, visible, enabled>>

OverrideUpdate ==
    \E r \in {override_update(ctx, priv)} :
        /\ ctx' = r.ctx
        /\ priv' = r.priv
        /\ last' = "override_update"
        /\ UNCHANGED <<codec, given, settings, written, applied, warned, visible, enabled>>

\* "surfaces" set by the user or the encoder library
SetSurfaces ==
    \E v \in 0..MaxUserSurfaces :
        /\ priv' = [priv EXCEPT !["surfaces"] = Val(v)]
        /\ last' = "option"
        /\ UNCHANGED <<codec, given, settings, ctx, written, applied, warned, visible, enabled>>

\* "async_depth" set by the user or the encoder library
SetAsyncDepth ==
    \E v \in AsyncDepths :
        /\ priv' = [priv EXCEPT !["async_depth"] = Val(v)]
        /\ last' = "option"
        /\ UNCHANGED <<codec, given, settings, ctx, written, applied, warned, visible, enabled>>

\* the mode list's modified callback, run on the settings record
ModifiedRatecontrol ==
    /\ visible' = modified_ratecontrol(settings)
    /\ last' = "modified_ratecontrol"
    /\ UNCHANGED <<codec, given, settings, ctx, priv, written, applied, warned, enabled>>

\* get_defaults on a settings record holding the user values of u
GetDefaults(UserValues) ==
    \E u \in UserValues :
        /\ given' = u
        /\ settings' = get_defaults(u)
        /\ last' = "get_defaults"
        /\ UNCHANGED <<codec, ctx, priv, written, applied, warned, visible, enabled>>

\* get_properties_pre and get_properties_post build a new property tree;
\* a new property is visible and enabled
GetProperties ==
    \E groups_broken \in BOOLEAN :
        /\ enabled' = [x \in get_properties_pre \cup get_properties_post(codec, groups_broken)
                          |-> TRUE]
        /\ visible' = [x \in RateControlProperties |-> TRUE]
        /\ last' = "get_properties"
        /\ UNCHANGED <<codec, given, settings, ctx, priv, written, applied, warned>>

\* the quality toggle's modified callback, run on the settings record
ModifiedQuality ==
    /\ enabled' = modified_quality(enabled, settings)
    /\ last' = "modified_quality"
    /\ UNCHANGED <<codec, given, settings, ctx, priv, written, applied, warned, visible>>

GetRuntimeProperties ==
    /\ enabled' = get_runtime_properties(enabled)
    /\ last' = "get_runtime_properties"
    /\ UNCHANGED <<codec, given, settings, ctx, priv, written, applied, warned, visible>>

\* a settings record: the defaults with the keys of o replaced
With(o) == [k \in DOMAIN Defaults |-> IF k \in DOMAIN o THEN o[k] ELSE Defaults[k]]

\* ------------------------------------------------------------------------
\* Resource derivation: update with look-ahead and B-frame counts from their
\* UI ranges, options set from outside, override_update
\* ------------------------------------------------------------------------
OverrideInputs ==
    {[Defaults EXCEPT ![ST_RATECONTROL_LOOKAHEAD] = la, ![ST_OTHER_BFRAMES] = b] :
        la \in {0, 5, 10, LookaheadMax}, b \in {0, 2, BFramesMax}}

UpdateForOverride == Update(OverrideInputs)

NextOverride == UpdateForOverride \/ SetSurfaces \/ SetAsyncDepth \/ OverrideUpdate

SpecOverride == Init /\ [][NextOverride]_vars

\* ------------------------------------------------------------------------
\* Rate control: every mode (and a value that is no mode) with three value
\* sets, among them a bit rate beyond 2^31 / 1000 kbit/s
\* ------------------------------------------------------------------------
Modes == DOMAIN ratecontrolmodes

RateControlValues ==
    { << >>,
      (ST_RATECONTROL_BITRATE_TARGET :> 2147484) @@
      (ST_RATECONTROL_BITRATE_MAXIMUM :> 0) @@
      (S_RATECONTROL_BUFFERSIZE :> Int32Max) @@
      (ST_RATECONTROL_QUALITY :> TRUE) @@
      (ST_RATECONTROL_QUALITY_TARGET :> 50) @@
      (ReplayBufferKey :> 6000),
      (ST_RATECONTROL_BITRATE_TARGET :> 1) @@
      (ST_RATECONTROL_QUALITY :> TRUE) @@
      (ST_RATECONTROL_QUALITY_MINIMUM :> 0) @@
      (ST_RATECONTROL_QUALITY_MAXIMUM :> 51) @@
      (ST_RATECONTROL_QUALITY_TARGET :> 100) @@
      (ST_RATECONTROL_QP_I :> 30) @@
      (ST_RATECONTROL_QP_I_INITIAL :> 25) @@
      (ST_RATECONTROL_QP_P_INITIAL :> 26) @@
      (ST_RATECONTROL_QP_B_INITIAL :> 27) }

RateControlInputs ==
    {With((ST_RATECONTROL_MODE :> m) @@ o) :
        m \in Modes \cup {UnknownEnum}, o \in RateControlValues}

UpdateRateControl == Update(RateControlInputs)

NextRateControl == UpdateRateControl \/ ModifiedRatecontrol

SpecRateControl == Init /\ [][NextRateControl]_vars

\* ------------------------------------------------------------------------
\* B-frames, weighted prediction and the other tri-states
\* ------------------------------------------------------------------------
TriStates == {-1, 0, 1}

OtherInputs ==
    {With((ST_OTHER_BFRAMES :> b) @@ (ST_OTHER_WEIGHTED_PREDICTION :> wp) @@
          (ST_OTHER_ZEROLATENCY :> zl) @@ (ST_OTHER_NONREFERENCE_PFRAMES :> zl) @@
          (ST_OTHER_BFRAME_REFERENCEMODE :> m)) :
        b \in {0, 2}, wp \in TriStates, zl \in {-1, 1}, m \in {"DISABLED", "EACH", UnknownEnum}}

UpdateOther == Update(OtherInputs)

NextOther == UpdateOther \/ OverrideUpdate

SpecOther == Init /\ [][NextOther]_vars

\* ------------------------------------------------------------------------
\* The enum tables: every list entry of the preset, mode and reference-mode
\* lists, and a value outside each list
\* ------------------------------------------------------------------------
TableInputs ==
    {With((ST_PRESET :> p) @@ (ST_OTHER_BFRAME_REFERENCEMODE :> b)) :
        p \in DOMAIN presets \cup {UnknownEnum}, b \in DOMAIN b_ref_modes \cup {UnknownEnum}}
    \cup
    {With((ST_RATECONTROL_MODE :> m) @@ (ST_OTHER_BFRAME_REFERENCEMODE :> b)) :
        m \in Modes \cup {UnknownEnum}, b \in DOMAIN b_ref_modes}

UpdateTables == Update(TableInputs)

NextTables == UpdateTables \/ ModifiedRatecontrol

SpecTables == Init /\ [][NextTables]_vars

\* ------------------------------------------------------------------------
\* Two-pass, look-ahead and adaptive I/B; adaptive quantization
\* ------------------------------------------------------------------------
LookaheadInputs ==
    {With((ST_RATECONTROL_TWOPASS :> tp) @@ (ST_RATECONTROL_LOOKAHEAD :> la) @@
          (ST_RATECONTROL_ADAPTIVEI :> ai) @@ (ST_RATECONTROL_ADAPTIVEB :> ab)) :
        tp \in TriStates, la \in {0, 10}, ai \in TriStates, ab \in TriStates}

AqInputs ==
    {With((ST_AQ_SPATIAL :> saq) @@ (ST_AQ_TEMPORAL :> taq) @@ (ST_AQ_STRENGTH :> 15)) :
        saq \in TriStates, taq \in TriStates}

\* ------------------------------------------------------------------------
\* update, override_update and the visibility callback on one context, with
\* settings records that differ from the defaults in every group of keys
\* ------------------------------------------------------------------------
MixedInputs ==
    { Defaults,
      With((ST_PRESET :> "HIGH_QUALITY") @@ (ST_RATECONTROL_MODE :> "CQP") @@
           (ST_RATECONTROL_QP_I :> 30) @@ (ST_RATECONTROL_TWOPASS :> 1) @@
           (ST_RATECONTROL_LOOKAHEAD :> 10) @@ (ST_RATECONTROL_ADAPTIVEI :> 1) @@
           (ST_RATECONTROL_ADAPTIVEB :> 0) @@ (ST_OTHER_BFRAMES :> 0) @@
           (ST_OTHER_WEIGHTED_PREDICTION :> 1)),
      With((ST_RATECONTROL_MODE :> "VBR") @@ (ST_RATECONTROL_BITRATE_TARGET :> 1) @@
           (ST_RATECONTROL_QUALITY :> TRUE) @@ (ST_RATECONTROL_QUALITY_MINIMUM :> 0) @@
           (ST_RATECONTROL_QUALITY_MAXIMUM :> 51) @@ (ST_RATECONTROL_QUALITY_TARGET :> 100) @@
           (ST_RATECONTROL_QP_I_INITIAL :> 25) @@ (ST_AQ_SPATIAL :> 1) @@
           (ST_AQ_TEMPORAL :> 0) @@ (ST_OTHER_ZEROLATENCY :> 1) @@
           (ST_OTHER_BFRAME_REFERENCEMODE :> "MIDDLE")),
      With((ST_RATECONTROL_MODE :> "VBR_HQ") @@ (ST_RATECONTROL_BITRATE_TARGET :> 2147484) @@
           (ST_RATECONTROL_QUALITY_TARGET :> 50) @@ (ST_RATECONTROL_TWOPASS :> 0) @@
           (ST_AQ_SPATIAL :> 0) @@ (ST_AQ_TEMPORAL :> 1) @@
           (ST_OTHER_WEIGHTED_PREDICTION :> 1) @@ (ST_OTHER_NONREFERENCE_PFRAMES :> 1)),
      With((ST_PRESET :> UnknownEnum) @@ (ST_RATECONTROL_MODE :> UnknownEnum) @@
           (ST_OTHER_BFRAME_REFERENCEMODE :> UnknownEnum) @@
           (ST_OTHER_WEIGHTED_PREDICTION :> 0) @@ (ST_OTHER_BFRAMES :> BFramesMax)),
      With((ST_RATECONTROL_MODE :> "CBR_LD_HQ") @@ (ST_RATECONTROL_LOOKAHEAD :> LookaheadMax) @@
           (ST_RATECONTROL_ADAPTIVEI :> 0) @@ (ST_RATECONTROL_ADAPTIVEB :> 1) @@
           (ST_OTHER_BFRAMES :> 0) @@ (ReplayBufferKey :> 6000)) }

UpdateMixed == Update(MixedInputs)

Next == UpdateMixed \/ OverrideUpdate \/ ModifiedRatecontrol

Spec == Init /\ [][Next]_vars

\* ------------------------------------------------------------------------
\* Two-pass, look-ahead and adaptive I/B on both codec variants
\* ------------------------------------------------------------------------
UpdateLookahead == Update(LookaheadInputs)

NextLookahead == UpdateLookahead \/ OverrideUpdate

SpecLookahead == Init /\ [][NextLookahead]_vars

\* ------------------------------------------------------------------------
\* The quality range: toggle, minimum (also below the slider's 0) and
\* maximum in a mode of each family
\* ------------------------------------------------------------------------
QualityInputs ==
    {With((ST_RATECONTROL_MODE :> m) @@ (ST_RATECONTROL_QUALITY :> q) @@
          (ST_RATECONTROL_QUALITY_MINIMUM :> qmin) @@ (ST_RATECONTROL_QUALITY_MAXIMUM :> qmax)) :
        m \in {"CQP", "CBR_HQ", "VBR", "VBR_HQ"}, q \in BOOLEAN,
        qmin \in {-1, 0, 51}, qmax \in {-1, 30}}

UpdateQuality == Update(QualityInputs)

NextQuality == UpdateQuality \/ ModifiedRatecontrol

SpecQuality == Init /\ [][NextQuality]_vars

\* ------------------------------------------------------------------------
\* The configuration life cycle: defaults over user values, the property
\* tree and its callbacks, update with the settings record at hand
\* ------------------------------------------------------------------------
UserSettings ==
    {EmptySettings} \cup
    {(ST_RATECONTROL_MODE :> m) @@ (ST_RATECONTROL_QUALITY :> q) @@
     (ST_RATECONTROL_LOOKAHEAD :> 10) @@ (ST_RATECONTROL_ADAPTIVEB :> ab) :
        m \in {"CQP", "VBR"}, q \in BOOLEAN, ab \in {-1, 1}}

GetDefaultsUser == GetDefaults(UserSettings)

UpdateSettings == Update({settings})

NextLifecycle ==
    \/ GetDefaultsUser
    \/ GetProperties
    \/ ModifiedRatecontrol
    \/ ModifiedQuality
    \/ GetRuntimeProperties
    \/ UpdateSettings

SpecLifecycle == Init /\ [][NextLifecycle]_vars

\* ------------------------------------------------------------------------
\* Properties of override_update (checked under SpecOverride)
\* ------------------------------------------------------------------------
SurfacesOf(p) == av_opt_get_int(p, "surfaces")

\* the surface count the specification gives for an unset count
ClaimedSurfaces(lookahead, max_b_frames) ==
    IF lookahead > 0
    THEN Max(1, Max(Max(4, (max_b_frames + 1) * 4), lookahead + max_b_frames + 5))
    ELSE IF max_b_frames > 0
         THEN Max(4, (max_b_frames + 1) * 4)
         ELSE 4

\* C1: override_update leaves a "surfaces" option that reads back non-zero
\* unchanged, and sets one that reads back 0 to
\* max(1, max(max(4, (max_b_frames+1)*4), lookahead + max_b_frames + 5)) when
\* rc-lookahead > 0, to max(4, (max_b_frames+1)*4) when rc-lookahead <= 0 and
\* max_b_frames > 0, and to 4 otherwise; the derivation agrees with that
\* formula for every lookahead in 0..32 and max_b_frames in 0..4, and gives
\* 4, 12 and 17 for (0,0), (0,2) and (10,2).
C1_SurfacesDerivedWhenUnset ==
    [][last' = "override_update" =>
        /\ IF SurfacesOf(priv) # 0
           THEN priv'["surfaces"] = priv["surfaces"]
           ELSE priv'["surfaces"] =
                    Val(ClaimedSurfaces(av_opt_get_int(priv, "rc-lookahead"), ctx.max_b_frames))
        /\ \A la \in 0..LookaheadMax, b \in 0..BFramesMax :
               derive_surfaces(la, b) = ClaimedSurfaces(la, b)
        /\ derive_surfaces(0, 0) = 4
        /\ derive_surfaces(0, 2) = 12
        /\ derive_surfaces(10, 2) = 17]_vars

\* C1 witness: look-ahead 10 and 2 B-frames gave 17 surfaces, more than any
\* count set from outside
C1_Witness ==
    /\ last = "override_update"
    /\ priv["rc-lookahead"] = Val(10)
    /\ ctx.max_b_frames = 2
    /\ priv["surfaces"] = Val(17)

Clamp(v, lower, upper) == Min(Max(v, lower), upper)

\* C2: after override_update, delay = clamp(async_depth, lower 3, upper
\* surfaces - 1), with surfaces the count in effect after the derivation
\* step, derived or set from outside.
C2_DelayIsClampedAsyncDepth ==
    last = "override_update" =>
        ctx.delay = Clamp(av_opt_get_int(priv, "async_depth"), 3, SurfacesOf(priv) - 1)

\* C2 witness: async_depth 20 with 10 surfaces gave delay 9
C2_Witness ==
    /\ last = "override_update"
    /\ priv["async_depth"] = Val(20)
    /\ priv["surfaces"] = Val(10)
    /\ ctx.delay = 9

\* C3 as stated: after every override_update, for every async_depth and
\* every surfaces value, delay is at most surfaces - 1 and at least 3.
C3_DelayBetweenThreeAndSurfaces ==
    last = "override_update" =>
        /\ ctx.delay <= SurfacesOf(priv) - 1
        /\ ctx.delay >= 3

\* C3 amended: after every override_update delay is at most surfaces - 1; it
\* is at least 3 whenever surfaces >= 4, which covers every derived count,
\* and equals surfaces - 1 when a count below 4 was set from outside.
C3_DelayAtMostSurfacesAndThreeWhenRoom ==
    last = "override_update" =>
        /\ ctx.delay <= SurfacesOf(priv) - 1
        /\ SurfacesOf(priv) >= 4 => ctx.delay >= 3
        /\ SurfacesOf(priv) < 4 => ctx.delay = SurfacesOf(priv) - 1

\* C3 witness: 2 surfaces set from outside, delay 1
C3_Witness ==
    /\ last = "override_update"
    /\ priv["surfaces"] = Val(2)
    /\ ctx.delay = 1

\* ------------------------------------------------------------------------
\* Properties of the rate-control part of update (checked under
\* SpecRateControl)
\* ------------------------------------------------------------------------
RateControlFields ==
    {ST_RATECONTROL_BITRATE_TARGET, ST_RATECONTROL_BITRATE_MAXIMUM, S_RATECONTROL_BUFFERSIZE,
     ST_RATECONTROL_QUALITY_MINIMUM, ST_RATECONTROL_QUALITY_MAXIMUM, ST_RATECONTROL_QUALITY_TARGET,
     ST_RATECONTROL_QP_I, ST_RATECONTROL_QP_P, ST_RATECONTROL_QP_B,
     ST_RATECONTROL_QP_I_INITIAL, ST_RATECONTROL_QP_P_INITIAL, ST_RATECONTROL_QP_B_INITIAL}

CbrFamily == {"CBR", "CBR_HQ", "CBR_LD_HQ"}
VbrFamily == {"VBR", "VBR_HQ"}

\* the fields the callback has made visible
VisibleFields == {x \in RateControlFields : visible[x]}

\* the fields update puts into the context in mode m, over the settings
\* records of this specification
ActiveFields(m) ==
    UNION {update(s, codec, ctx, priv).applied \cap RateControlFields :
              s \in {i \in RateControlInputs : i[ST_RATECONTROL_MODE] = m}}

\* C4 as stated: for every rate-control mode the fields modified_ratecontrol
\* makes visible are exactly the fields update reads and writes into the
\* context or its private options in that mode.
C4_VisibleFieldsAreActiveFields ==
    (last = "modified_ratecontrol" /\ settings[ST_RATECONTROL_MODE] \in Modes) =>
        VisibleFields = ActiveFields(settings[ST_RATECONTROL_MODE])

\* C5: after any sequence of updates (every update writes some option, so
\* written is non-empty once one has run), "cbr" is 1 iff the mode of the
\* most recent update is CBR, CBR_HQ or CBR_LD_HQ, and 0 otherwise.
C5_CbrFlagFollowsLastMode ==
    written # {} =>
        priv["cbr"] = Val(IF settings[ST_RATECONTROL_MODE] \in CbrFamily THEN 1 ELSE 0)

\* C5 witness: an update with a value that is no mode, after a CBR_HQ update
\* whose "rc" token is still in place, left "cbr" at 0
C5_Witness ==
    /\ last = "update"
    /\ settings[ST_RATECONTROL_MODE] = UnknownEnum
    /\ priv["rc"] = Val("cbr_hq")
    /\ priv["cbr"] = Val(0)

\* x is v * 1000, said without forming the product
IsThousandTimes(x, v) == x % 1000 = 0 /\ x \div 1000 = v

\* C9 as stated: update writes bit_rate in the CBR and VBR families,
\* rc_max_rate in the VBR family, rc_buffer_size in both and none of them in
\* CQP, and each written value is the UI value in kbit times 1000 for every
\* value of the UI range (up to 2^31 - 1).
C9_RatesAreKbitTimesThousand ==
    [][last' = "update" =>
        LET m == given'[ST_RATECONTROL_MODE]
        IN  /\ IF m \in CbrFamily \cup VbrFamily
               THEN IsThousandTimes(ctx'.bit_rate, given'[ST_RATECONTROL_BITRATE_TARGET])
               ELSE ctx'.bit_rate = ctx.bit_rate
            /\ IF m \in VbrFamily
               THEN IsThousandTimes(ctx'.rc_max_rate, given'[ST_RATECONTROL_BITRATE_MAXIMUM])
               ELSE ctx'.rc_max_rate = ctx.rc_max_rate
            /\ IF m \in CbrFamily \cup VbrFamily
               THEN IsThousandTimes(ctx'.rc_buffer_size, given'[S_RATECONTROL_BUFFERSIZE])
               ELSE ctx'.rc_buffer_size = ctx.rc_buffer_size]_vars

\* C8 as stated: update never modifies the settings record it is given.
C8_SettingsUntouched ==
    last = "update" => settings = given

\* C8 amended: the only settings key update modifies is "bitrate", which it
\* sets to the bit rate target in the CBR and VBR families; in CQP and for
\* a value that is no mode it modifies no key.
C8_OnlyReplayBufferKeyWritten ==
    last = "update" =>
        \A k \in DOMAIN given :
            settings[k] =
                IF k = ReplayBufferKey /\ given[ST_RATECONTROL_MODE] \in CbrFamily \cup VbrFamily
                THEN given[ST_RATECONTROL_BITRATE_TARGET]
                ELSE given[k]

\* C8 witness: a VBR update changed "bitrate" from 6000 to the target
C8_Witness ==
    /\ last = "update"
    /\ given[ST_RATECONTROL_MODE] = "VBR"
    /\ given[ReplayBufferKey] = 6000
    /\ settings[ReplayBufferKey] = 2147484

\* ------------------------------------------------------------------------
\* Properties of the last part of update (checked under SpecOther)
\* ------------------------------------------------------------------------
\* C6: with B-frames non-zero and weighted prediction Enabled, update writes
\* "weighted_pred" as 0 and logs a warning; otherwise it writes the requested
\* tri-state value when that is not Default and does not write the option
\* when it is Default.
C6_WeightedPredictionYieldsToBFrames ==
    [][last' = "update" =>
        LET b  == given'[ST_OTHER_BFRAMES]
            wp == given'[ST_OTHER_WEIGHTED_PREDICTION]
        IN  IF b # 0 /\ wp = 1
            THEN /\ "weighted_pred" \in written'
                 /\ priv'["weighted_pred"] = Val(0)
                 /\ warned'
            ELSE IF wp # -1
                 THEN /\ "weighted_pred" \in written'
                      /\ priv'["weighted_pred"] = Val(wp)
                      /\ ~warned'
                 ELSE /\ "weighted_pred" \notin written'
                      /\ priv'["weighted_pred"] = priv["weighted_pred"]
                      /\ ~warned']_vars

\* C6 witness: 2 B-frames with weighted prediction Enabled
C6_Witness ==
    /\ last = "update"
    /\ given[ST_OTHER_BFRAMES] = 2
    /\ given[ST_OTHER_WEIGHTED_PREDICTION] = 1
    /\ priv["weighted_pred"] = Val(0)
    /\ warned

\* ------------------------------------------------------------------------
\* Properties of update as a whole (checked under Spec)
\* ------------------------------------------------------------------------
\* C7: update is idempotent: a second update with the same settings leaves
\* every context field and every private option as the first left them.
C7_UpdateIdempotent ==
    last = "update" =>
        \A r \in {update(settings, codec, ctx, priv)} :
            /\ r.ctx = ctx
            /\ r.priv = priv

\* C7 witness: an update that came after another one with other settings and
\* that overrode weighted prediction, with options of the earlier one left
C7_Witness ==
    /\ last = "update"
    /\ given[ST_RATECONTROL_MODE] = "VBR_HQ"
    /\ warned
    /\ priv["no-scenecut"] = Val(1)
    /\ priv["preset"] = Val("default")

\* ------------------------------------------------------------------------
\* Properties of the enum tables (checked under SpecTables)
\* ------------------------------------------------------------------------
Injective(f) == \A a, b \in DOMAIN f : f[a] = f[b] => a = b

\* the enum value a token stands for
Lookup(table, token) == CHOOSE k \in DOMAIN table : table[k] = token

\* C10: preset_to_opt, ratecontrolmode_to_opt and b_ref_mode_to_opt cover
\* their 12, 6 and 3 enum values and are injective, so the token update
\* writes for an enum value looks up to that value again.
C10_TablesRoundTrip ==
    /\ DOMAIN preset_to_opt = DOMAIN presets /\ Cardinality(DOMAIN presets) = 12
    /\ DOMAIN ratecontrolmode_to_opt = Modes /\ Cardinality(Modes) = 6
    /\ DOMAIN b_ref_mode_to_opt = DOMAIN b_ref_modes /\ Cardinality(DOMAIN b_ref_modes) = 3
    /\ Injective(preset_to_opt)
    /\ Injective(ratecontrolmode_to_opt)
    /\ Injective(b_ref_mode_to_opt)
    /\ last = "update" =>
        /\ given[ST_PRESET] \in DOMAIN presets =>
              /\ priv["preset"] # Unset
              /\ Lookup(preset_to_opt, priv["preset"][1]) = given[ST_PRESET]
        /\ given[ST_RATECONTROL_MODE] \in Modes =>
              /\ priv["rc"] # Unset
              /\ Lookup(ratecontrolmode_to_opt, priv["rc"][1]) = given[ST_RATECONTROL_MODE]
        /\ given[ST_OTHER_BFRAME_REFERENCEMODE] \in DOMAIN b_ref_modes =>
              /\ priv["b_ref_mode"] # Unset
              /\ Lookup(b_ref_mode_to_opt, priv["b_ref_mode"][1]) =
                     given[ST_OTHER_BFRAME_REFERENCEMODE]

\* C10 witness: the last preset and reference mode of the lists were written
C10_Witness ==
    /\ last = "update"
    /\ given[ST_PRESET] = "LOSSLESS_HIGH_PERFORMANCE"
    /\ priv["preset"] = Val("losslesshp")
    /\ given[ST_OTHER_BFRAME_REFERENCEMODE] = "MIDDLE"
    /\ priv["b_ref_mode"] = Val("middle")
    /\ priv["rc"] = Val("cbr_hq")

\* ------------------------------------------------------------------------
\* Enum values outside the tables (checked under SpecTables)
\* ------------------------------------------------------------------------
\* C11: after an update whose preset, rate control mode or B-frame reference
\* mode is no value of the tables, the matching option is at the encoder
\* default: "preset" is cleared, and "rc" and "b_ref_mode" are unset rather
\* than at a token written by an earlier update.
C11_UnknownEnumLeavesDefault ==
    last = "update" =>
        /\ given[ST_PRESET] \notin DOMAIN preset_to_opt => priv["preset"] = Unset
        /\ given[ST_RATECONTROL_MODE] \notin DOMAIN ratecontrolmode_to_opt => priv["rc"] = Unset
        /\ given[ST_OTHER_BFRAME_REFERENCEMODE] \notin DOMAIN b_ref_mode_to_opt =>
               priv["b_ref_mode"] = Unset

\* ------------------------------------------------------------------------
\* Two-pass and adaptive I/B (checked under SpecLookahead)
\* ------------------------------------------------------------------------
\* C12: update writes "2pass" exactly when the two-pass tri-state is not
\* Default, "no-scenecut" exactly when look-ahead is above 0 and adaptive I
\* is not Default, and "b_adapt" exactly when look-ahead is above 0, adaptive
\* B is not Default and the codec is not "h264_nvenc"; an option it does not
\* write keeps the value it had.
C12_TriStateOptionsWrittenOnlyWhenSet ==
    [][last' = "update" =>
        LET tp == given'[ST_RATECONTROL_TWOPASS]
            la == given'[ST_RATECONTROL_LOOKAHEAD]
            ai == given'[ST_RATECONTROL_ADAPTIVEI]
            ab == given'[ST_RATECONTROL_ADAPTIVEB]
        IN  /\ priv'["2pass"] =
                   IF ~is_tristate_default(tp)
                   THEN Val(IF tp # 0 THEN 1 ELSE 0)
                   ELSE priv["2pass"]
            /\ "2pass" \in written' <=> ~is_tristate_default(tp)
            /\ priv'["no-scenecut"] =
                   IF la > 0 /\ ~is_tristate_default(ai) THEN Val(ai) ELSE priv["no-scenecut"]
            /\ "no-scenecut" \in written' <=> (la > 0 /\ ~is_tristate_default(ai))
            /\ priv'["b_adapt"] =
                   IF la > 0 /\ ~is_tristate_default(ab) /\ codec # "h264_nvenc"
                   THEN Val(ab)
                   ELSE priv["b_adapt"]
            /\ "b_adapt" \in written' <=>
                   (la > 0 /\ ~is_tristate_default(ab) /\ codec # "h264_nvenc")]_vars

\* C12 witness: on hevc_nvenc an update with Default two-pass and adaptive I
\* wrote "b_adapt" and kept the earlier "2pass" and "no-scenecut"
C12_Witness ==
    /\ last = "update"
    /\ codec = "hevc_nvenc"
    /\ given[ST_RATECONTROL_LOOKAHEAD] = 10
    /\ given[ST_RATECONTROL_TWOPASS] = -1
    /\ given[ST_RATECONTROL_ADAPTIVEI] = -1
    /\ given[ST_RATECONTROL_ADAPTIVEB] = 0
    /\ written \cap {"2pass", "no-scenecut", "b_adapt"} = {"b_adapt"}
    /\ priv["2pass"] = Val(1)
    /\ priv["no-scenecut"] = Val(1)
    /\ priv["b_adapt"] = Val(0)

\* ------------------------------------------------------------------------
\* The quality range (checked under SpecQuality)
\* ------------------------------------------------------------------------
\* C13 as stated: in every rate control mode, with the quality toggle on
\* update sets qmin from the quality minimum and qmax from the quality
\* maximum only if the minimum is at least 0; with the toggle off it changes
\* neither.
C13_QualityRangeInEveryMode ==
    [][last' = "update" =>
        LET qmin == given'[ST_RATECONTROL_QUALITY_MINIMUM]
            qmax == given'[ST_RATECONTROL_QUALITY_MAXIMUM]
        IN  IF given'[ST_RATECONTROL_QUALITY]
            THEN /\ ctx'.qmin = qmin
                 /\ ctx'.qmax = IF qmin >= 0 THEN qmax ELSE ctx.qmax
            ELSE /\ ctx'.qmin = ctx.qmin
                 /\ ctx'.qmax = ctx.qmax]_vars

\* C13 amended: in VBR and VBR_HQ, with the quality toggle on update sets
\* qmin from the quality minimum and qmax from the quality maximum only if
\* the minimum is at least 0; with the toggle off, and in every other mode
\* whatever the toggle, it changes neither.
C13_QualityRangeInVbrFamily ==
    [][last' = "update" =>
        LET qmin == given'[ST_RATECONTROL_QUALITY_MINIMUM]
            qmax == given'[ST_RATECONTROL_QUALITY_MAXIMUM]
        IN  IF given'[ST_RATECONTROL_MODE] \in VbrFamily /\ given'[ST_RATECONTROL_QUALITY]
            THEN /\ ctx'.qmin = qmin
                 /\ ctx'.qmax = IF qmin >= 0 THEN qmax ELSE ctx.qmax
            ELSE /\ ctx'.qmin = ctx.qmin
                 /\ ctx'.qmax = ctx.qmax]_vars

\* C13 witness: a VBR update with the toggle on and a minimum of -1 set
\* qmin and kept the qmax of an earlier update
C13_Witness ==
    /\ last = "update"
    /\ given[ST_RATECONTROL_MODE] = "VBR"
    /\ given[ST_RATECONTROL_QUALITY]
    /\ given[ST_RATECONTROL_QUALITY_MINIMUM] = -1
    /\ given[ST_RATECONTROL_QUALITY_MAXIMUM] = -1
    /\ ctx.qmin = -1
    /\ ctx.qmax = 30

\* ------------------------------------------------------------------------
\* Constant and initial QP (checked under SpecRateControl)
\* ------------------------------------------------------------------------
QpOptions == <<"init_qpI", "init_qpP", "init_qpB">>

QpKeys == <<ST_RATECONTROL_QP_I, ST_RATECONTROL_QP_P, ST_RATECONTROL_QP_B>>

QpInitialKeys ==
    <<ST_RATECONTROL_QP_I_INITIAL, ST_RATECONTROL_QP_P_INITIAL, ST_RATECONTROL_QP_B_INITIAL>>

\* C16 as stated: update writes init_qpI/P/B from the constant QP values in
\* CQP and from the initial QP values in VBR and VBR_HQ, where an initial QP
\* of -1 is not written; in the CBR family it leaves them unchanged.
C16_InitialQpOfMinusOneNotWritten ==
    [][last' = "update" =>
        LET m == given'[ST_RATECONTROL_MODE]
        IN  \A i \in 1..3 :
                priv'[QpOptions[i]] =
                    IF m = "CQP" THEN Val(given'[QpKeys[i]])
                    ELSE IF m \in VbrFamily /\ given'[QpInitialKeys[i]] # -1
                         THEN Val(given'[QpInitialKeys[i]])
                    ELSE priv[QpOptions[i]]]_vars

\* C16 amended: update writes init_qpI/P/B from the constant QP values in
\* CQP and from the initial QP values in VBR and VBR_HQ whatever they are,
\* -1 included; in the CBR family it leaves them unchanged.
C16_InitialQpWrittenInVbrFamily ==
    [][last' = "update" =>
        LET m == given'[ST_RATECONTROL_MODE]
        IN  \A i \in 1..3 :
                priv'[QpOptions[i]] =
                    IF m = "CQP" THEN Val(given'[QpKeys[i]])
                    ELSE IF m \in VbrFamily THEN Val(given'[QpInitialKeys[i]])
                    ELSE priv[QpOptions[i]]]_vars

\* C16 witness: a VBR update with the default initial QP of -1 left -1 in
\* all three options
C16_Witness ==
    /\ last = "update"
    /\ given[ST_RATECONTROL_MODE] = "VBR"
    /\ \A i \in 1..3 :
           /\ given[QpInitialKeys[i]] = -1
           /\ priv[QpOptions[i]] = Val(-1)
           /\ QpOptions[i] \in written

\* ------------------------------------------------------------------------
\* B-frames and weighted prediction over several updates (SpecOther)
\* ------------------------------------------------------------------------
\* C17: the context never has a non-zero max_b_frames while "weighted_pred"
\* holds 1.
C17_NoWeightedPredictionWithBFrames ==
    ~(ctx.max_b_frames # 0 /\ priv["weighted_pred"] = Val(1))

\* ------------------------------------------------------------------------
\* Defaults and the property tree (checked under SpecLifecycle)
\* ------------------------------------------------------------------------
TriStateKeys ==
    {ST_RATECONTROL_TWOPASS, ST_RATECONTROL_ADAPTIVEI, ST_RATECONTROL_ADAPTIVEB,
     ST_AQ_SPATIAL, ST_AQ_TEMPORAL, ST_OTHER_ZEROLATENCY, ST_OTHER_WEIGHTED_PREDICTION,
     ST_OTHER_NONREFERENCE_PFRAMES}

\* C14: after get_defaults on a settings record with no user value, the
\* record reads preset DEFAULT, mode CBR_HQ, look-ahead 0, bit rate target
\* and maximum 6000, buffer size 12000, quality minimum 51 and maximum -1,
\* QP I, P and B 21, AQ strength 8, B-frames 2, and -1 for each of the eight
\* tri-states.
C14_DefaultsOnEmptySettings ==
    (last = "get_defaults" /\ DOMAIN given = {}) =>
        /\ settings[ST_PRESET] = "DEFAULT"
        /\ settings[ST_RATECONTROL_MODE] = "CBR_HQ"
        /\ settings[ST_RATECONTROL_LOOKAHEAD] = 0
        /\ settings[ST_RATECONTROL_BITRATE_TARGET] = 6000
        /\ settings[ST_RATECONTROL_BITRATE_MAXIMUM] = 6000
        /\ settings[S_RATECONTROL_BUFFERSIZE] = 12000
        /\ settings[ST_RATECONTROL_QUALITY_MINIMUM] = 51
        /\ settings[ST_RATECONTROL_QUALITY_MAXIMUM] = -1
        /\ settings[ST_RATECONTROL_QP_I] = 21
        /\ settings[ST_RATECONTROL_QP_P] = 21
        /\ settings[ST_RATECONTROL_QP_B] = 21
        /\ settings[ST_AQ_STRENGTH] = 8
        /\ settings[ST_OTHER_BFRAMES] = 2
        /\ \A k \in TriStateKeys : settings[k] = -1

\* C14 witness: get_defaults ran on an empty record after a VBR update of a
\* record with user values
C14_Witness ==
    /\ last = "get_defaults"
    /\ DOMAIN given = {}
    /\ settings[ST_RATECONTROL_MODE] = "CBR_HQ"
    /\ settings[ST_OTHER_BFRAMES] = 2
    /\ priv["rc"] = Val("vbr")

BitrateFields ==
    {ST_RATECONTROL_BITRATE, ST_RATECONTROL_BITRATE_TARGET, ST_RATECONTROL_BITRATE_MAXIMUM,
     S_RATECONTROL_BUFFERSIZE}

\* C15: whatever the enabled flags were before, after get_runtime_properties
\* the tree has the same properties, the bit rate group, target, maximum
\* and buffer size are enabled, and every other property is disabled.
C15_OnlyBitrateFieldsEnabledAtRuntime ==
    [][last' = "get_runtime_properties" =>
        /\ DOMAIN enabled' = DOMAIN enabled
        /\ \A x \in DOMAIN enabled' : enabled'[x] <=> x \in BitrateFields]_vars

\* C15 witness: on the h264_nvenc tree with groups, get_runtime_properties
\* left the bit rate fields enabled and the rest, Adaptive B and the quality
\* range included, disabled
C15_Witness ==
    /\ last = "get_runtime_properties"
    /\ codec = "h264_nvenc"
    /\ BitrateFields \subseteq DOMAIN enabled
    /\ \A x \in BitrateFields : enabled[x]
    /\ ST_RATECONTROL_ADAPTIVEB \in DOMAIN enabled
    /\ ~enabled[ST_RATECONTROL_ADAPTIVEB]
    /\ ~enabled[ST_RATECONTROL_QUALITY_MINIMUM]
    /\ ~enabled[ST_PRESET]

\* update on a new context can write "b_adapt" for the codec
CanWriteBAdapt(codec_name) ==
    \E s \in LookaheadInputs :
        "b_adapt" \in update(s, codec_name, [f \in CtxFields |-> 0],
                             [o \in Options |-> Unset]).written

\* C18: on each codec variant, the tree get_properties_post builds has the
\* Adaptive B control exactly when update can write "b_adapt" on that codec.
C18_AdaptiveBControlMatchesUpdate ==
    last = "get_properties" =>
        (ST_RATECONTROL_ADAPTIVEB \in DOMAIN enabled <=> CanWriteBAdapt(codec))
====
